---- MODULE Spec2Model ----
(***************************************************************************)
(* Subnet bulk import of the mreg command line client                      *)
(* (Subnet.opt_import, src/commands.py:1089-1199), run against the remote  *)
(* inventory service.                                                      *)
(*                                                                         *)
(* One import run is: read the import file, fetch the subnets of the       *)
(* service, compute the delete/post/patch sets, run the safety checks,     *)
(* then issue DELETE, POST and PATCH calls while writing the log file.     *)
(* Every remote call is one step of the model; reading the file and the    *)
(* checks between the last read and the first request are one step each.   *)
(***************************************************************************)
EXTENDS Integers, Sequences, FiniteSets, TLC

VARIABLES
    args,            \* the argument list of the invocation
    file,            \* the lines of the import file
    vlans,           \* get_vlan_mapping(): range -> vlan
    remote,          \* the service's subnets: range -> record
    used,            \* the service's used addresses: range -> set of addresses
    pc,              \* position of the import routine
    runs,            \* number of invocations started
    log_file,        \* content of subnets_import.log
    ERROR,           \* the routine's error flag
    import_data,     \* range -> record read from the file
    current_subnets, \* range -> record fetched from the service
    subnets_delete,
    subnets_post,
    subnets_patch,
    subnets_ignore,
    pending,         \* the part of the set being iterated that is still to come
    calls,           \* the DELETE/POST/PATCH calls issued in this run, in order
    remote0,         \* the service's subnets when the run was invoked
    message,         \* the text of the warning that ended the run, if any
    fetches,         \* number of GET /subnets requests of this run
    others           \* number of steps another operator has taken

vars == <<args, file, vlans, remote, used, pc, runs, log_file, ERROR,
          import_data, current_subnets, subnets_delete, subnets_post,
          subnets_patch, subnets_ignore, pending, calls, remote0, message,
          fetches, others>>

-----------------------------------------------------------------------------
(* Bounds of the model *)

\* number of ranges of the overlapping universe (Nets)
MaxRanges == 3
\* largest inventory of the disjoint universe (FlatNets)
MaxInv == 5
\* number of import runs in one behaviour
MaxRuns == 2
\* largest number of tags on a line of the parsing scenarios
MaxTags == 2
\* number of steps of another operator in one behaviour
MaxOther == 1

-----------------------------------------------------------------------------
(* Values *)

\* Python's None, and a present value
None == <<>>
Some(x) == <<x>>

\* The ranges of the model; Nets[1] contains Nets[2] and Nets[4]. All are
\* network addresses (no host bit set), which ip_network accepts.
Nets == <<"10.0.0.0/16", "10.0.2.0/24", "10.1.0.0/24", "10.0.3.0/24">>
FlatNets == <<"10.2.0.0/24", "10.3.0.0/24", "10.4.0.0/24", "10.5.0.0/24",
              "10.6.0.0/24", "10.7.0.0/24", "10.8.0.0/24", "10.9.0.0/24",
              "10.10.0.0/24", "10.11.0.0/24">>

\* The text of a range split at '.' and '/'
CidrParts(s) ==
    CASE s = "10.0.0.0/16" -> <<10, 0, 0, 0, 16>>
      [] s = "10.0.2.0/24" -> <<10, 0, 2, 0, 24>>
      [] s = "10.0.3.0/24" -> <<10, 0, 3, 0, 24>>
      [] s = "10.1.0.0/24" -> <<10, 1, 0, 0, 24>>
      [] s = "10.2.0.0/24" -> <<10, 2, 0, 0, 24>>
      [] s = "10.3.0.0/24" -> <<10, 3, 0, 0, 24>>
      [] s = "10.4.0.0/24" -> <<10, 4, 0, 0, 24>>
      [] s = "10.5.0.0/24" -> <<10, 5, 0, 0, 24>>
      [] s = "10.6.0.0/24" -> <<10, 6, 0, 0, 24>>
      [] s = "10.7.0.0/24" -> <<10, 7, 0, 0, 24>>
      [] s = "10.8.0.0/24" -> <<10, 8, 0, 0, 24>>
      [] s = "10.9.0.0/24" -> <<10, 9, 0, 0, 24>>
      [] s = "10.10.0.0/24" -> <<10, 10, 0, 0, 24>>
      [] s = "10.11.0.0/24" -> <<10, 11, 0, 0, 24>>

\* ipaddress.ip_network(s): the network address and the broadcast address
ip_network(s) ==
    LET p == CidrParts(s)
        a == p[1] * 16777216 + p[2] * 65536 + p[3] * 256 + p[4]
    IN  [network_address |-> a,
         broadcast_address |-> a + 2 ^ (32 - p[5]) - 1]

\* address in network
Contains(n, a) == n.network_address <= a /\ a <= n.broadcast_address

\* ipaddress: IPv4Network.overlaps(other)
overlaps(self, other) ==
    \/ Contains(self, other.network_address)
    \/ Contains(self, other.broadcast_address)
    \/ Contains(other, self.network_address)
    \/ Contains(other, self.broadcast_address)

\* The tag vocabularies of the tag file; campus is in both
LocationTags == {"oslo", "bergen", "campus"}
CategoryTags == {"office", "lab", "campus"}
is_valid_location_tag(tag) == tag \in LocationTags
is_valid_category_tag(tag) == tag \in CategoryTags

\* All sequences that list the elements of the finite set S once each
RECURSIVE Orderings(_)
Orderings(S) ==
    IF S = {} THEN {<<>>}
    ELSE UNION {{<<x>> \o t : t \in Orderings(S \ {x})} : x \in S}

Keys(f) == DOMAIN f

\* The empty dict
EmptyMap == [r \in {} |-> None]

-----------------------------------------------------------------------------
(* Reading the import file: lines 1101-1129 *)

\* Python truthiness of an optional string
Truthy(x) == x # None /\ x # Some("")

\* ('%s %s' % (category, tag)).strip(), for a tag without blanks around it
JoinCategory(category, tag) ==
    IF category = "" THEN tag ELSE category \o " " \o tag

\* lines 1111-1115 with the two tests in the other order: a tag of both
\* vocabularies is taken as a category tag
RECURSIVE TagInfo_CategoryFirst(_, _)
TagInfo_CategoryFirst(tags, info) ==
    IF tags = <<>> THEN info
    ELSE LET tag == Head(tags)
             next == IF is_valid_category_tag(tag)
                        THEN [info EXCEPT !.category = JoinCategory(info.category, tag)]
                     ELSE IF is_valid_location_tag(tag)
                        THEN [info EXCEPT !.location = Some(tag)]
                     ELSE info
         IN  TagInfo_CategoryFirst(Tail(tags), next)

\* The loop over the tags of one line: the info record after the tags
RECURSIVE TagInfo(_, _)
TagInfo(tags, info) ==
    IF tags = <<>> THEN info
    ELSE LET tag == Head(tags)
             next == IF is_valid_location_tag(tag)
                        THEN [info EXCEPT !.location = Some(tag)]
                     ELSE IF is_valid_category_tag(tag)
                        THEN [info EXCEPT !.category = JoinCategory(info.category, tag)]
                     ELSE info
         IN  TagInfo(Tail(tags), next)

\* lines 1116-1118 without the write to the log
TagDiagnostics_Silent(tags, line_number) == <<>>

\* The log lines the loop over the tags of line line_number writes
RECURSIVE TagDiagnostics(_, _)
TagDiagnostics(tags, line_number) ==
    IF tags = <<>> THEN <<>>
    ELSE LET tag == Head(tags)
         IN  (IF is_valid_location_tag(tag) \/ is_valid_category_tag(tag)
                 THEN <<>>
                 ELSE << <<"Invalid tag", line_number, tag>> >>)
             \o TagDiagnostics(Tail(tags), line_number)

\* The record built from one matching line
LineData(line, vmap) ==
    LET info == TagInfo(line.tags, [location |-> None, category |-> ""])
    IN  [range |-> line.range,
         description |-> line.description,
         vlan |-> IF line.range \in DOMAIN vmap THEN Some(vmap[line.range]) ELSE Some(0),
         category |-> IF info.category # "" THEN Some(info.category) ELSE None,
         location |-> IF Truthy(info.location) THEN info.location ELSE None,
         frozen |-> FALSE]

\* import_data after the first n lines of the file
RECURSIVE ReadData(_, _, _)
ReadData(lines, n, vmap) ==
    IF n = 0 THEN EmptyMap
    ELSE LET before == ReadData(lines, n - 1, vmap)
             line == lines[n]
         IN  IF line.match
                THEN [r \in DOMAIN before \cup {line.range} |->
                        IF r = line.range THEN LineData(line, vmap) ELSE before[r]]
                ELSE before

\* the diagnostics written while reading the first n lines of the file
RECURSIVE ReadDiagnostics(_, _)
ReadDiagnostics(lines, n) ==
    IF n = 0 THEN <<>>
    ELSE ReadDiagnostics(lines, n - 1)
         \o (IF lines[n].match THEN TagDiagnostics(lines[n].tags, n) ELSE <<>>)

\* 'y' in args
Force(a) == \E i \in DOMAIN a : a[i] = "y"

\* lines 1094-1129: open the log, read the file
ReadFile ==
    /\ pc \in {"idle", "done", "aborted", "failed", "TypeError", "ZeroDivisionError"}
    /\ runs < MaxRuns
    /\ runs' = runs + 1
    /\ ERROR' = FALSE
    /\ import_data' = ReadData(file, Len(file), vlans)
    /\ log_file' = << <<"READ START", args[1]>> >>
                   \o ReadDiagnostics(file, Len(file))
                   \o << <<"READ END", args[1]>> >>
    /\ current_subnets' = EmptyMap
    /\ subnets_delete' = {}
    /\ subnets_post' = {}
    /\ subnets_patch' = {}
    /\ subnets_ignore' = {}
    /\ pending' = {}
    /\ calls' = <<>>
    /\ remote0' = remote
    /\ message' = ""
    /\ fetches' = 0
    /\ pc' = "fetch"
    /\ UNCHANGED <<args, file, vlans, remote, used, others>>

-----------------------------------------------------------------------------
(* The plan: lines 1131-1138 and 1156-1164 *)

\* line 1132: one GET /subnets request
FetchCount_Twice(n) == n + 2
FetchCount(n) == n + 1

\* line 1135
DeleteKeys(cur, imp) == Keys(cur) \ Keys(imp)

\* line 1136 without the difference
PostKeys_All(cur, imp) == Keys(imp)

\* line 1136
PostKeys(cur, imp) == Keys(imp) \ Keys(cur)

\* line 1138
IgnoreKeys(cur, imp) == Keys(imp) \cap Keys(cur)

\* lines 1131-1138: GET /subnets and the four key sets
FetchSubnets ==
    /\ pc = "fetch"
    /\ fetches' = FetchCount(fetches)
    /\ current_subnets' = remote
    /\ subnets_delete' = DeleteKeys(remote, import_data)
    /\ subnets_post' = PostKeys(remote, import_data)
    /\ subnets_patch' = {}
    /\ subnets_ignore' = IgnoreKeys(remote, import_data)
    /\ pending' = DeleteKeys(remote, import_data)
    /\ pc' = "check_used"
    /\ UNCHANGED <<args, file, vlans, remote, used, runs, log_file, ERROR,
                   import_data, calls, remote0, message, others>>

\* line 1143: if used_list
HasUsed_Never(used_list) == FALSE
HasUsed(used_list) == used_list # {}

\* lines 1140-1146: one pass of the loop over subnets_delete. The log line of
\* a range with used addresses formats subnet['range'] with subnet a str,
\* which raises TypeError before anything is written.
CheckUsed ==
    /\ pc = "check_used"
    /\ \E subnet \in pending :
         LET used_list == used[subnet]
         IN  IF HasUsed(used_list)
                THEN /\ ERROR' = TRUE
                     /\ pc' = "TypeError"
                     /\ pending' = pending
                ELSE /\ ERROR' = ERROR
                     /\ pc' = pc
                     /\ pending' = pending \ {subnet}
    /\ UNCHANGED <<args, file, vlans, remote, used, runs, log_file,
                   import_data, current_subnets, subnets_delete, subnets_post,
                   subnets_patch, subnets_ignore, calls, remote0, message,
                   fetches, others>>

\* lines 1148-1154: the overlap errors found for the new ranges against the
\* ranges of patch
OverlapPairs(post, patch) ==
    {pr \in post \X patch : overlaps(ip_network(pr[1]), ip_network(pr[2]))}

\* lines 1160-1163 without the comparison of location
NeedsPatch_NoLocation(new_data, current_data) ==
    \/ new_data.description # current_data.description
    \/ new_data.vlan # current_data.vlan
    \/ new_data.category # current_data.category

\* lines 1160-1163 with frozen compared as well
NeedsPatch_Frozen(new_data, current_data) ==
    \/ new_data.description # current_data.description
    \/ new_data.vlan # current_data.vlan
    \/ new_data.category # current_data.category
    \/ new_data.location # current_data.location
    \/ new_data.frozen # current_data.frozen

\* lines 1160-1163 with vlan 0 and no vlan taken as equal
NeedsPatch_Normalized(new_data, current_data) ==
    \/ new_data.description # current_data.description
    \/ (new_data.vlan # current_data.vlan
        /\ {new_data.vlan, current_data.vlan} # {None, Some(0)})
    \/ new_data.category # current_data.category
    \/ new_data.location # current_data.location

\* lines 1160-1163: the comparison of an imported and a fetched record
NeedsPatch(new_data, current_data) ==
    \/ new_data.description # current_data.description
    \/ new_data.vlan # current_data.vlan
    \/ new_data.category # current_data.category
    \/ new_data.location # current_data.location

\* lines 1156-1164 with every range of subnets_ignore added
PatchSet_All(ignore, imp, cur) == ignore

\* lines 1156-1164: subnets_patch after the loop over subnets_ignore
PatchSet(ignore, imp, cur) ==
    {subnet \in ignore : NeedsPatch(imp[subnet], cur[subnet])}

\* line 1169: (deletes + patches) / subnets > 0.2, for subnets > 0. The
\* quotient of two small integers is the double nearest the exact quotient
\* and 0.2 is the double nearest 1/5, so the comparison of the doubles is
\* the comparison of the exact values.
OverThreshold(ndelete, npatch, nsubnets) ==
    5 * (ndelete + npatch) > nsubnets

-----------------------------------------------------------------------------
(* The helpers of util: cli_warning and the transport *)

\* cli_warning(msg) raises: the routine is left at once
cli_warning == "aborted"

\* post/patch/delete raise when the service answers with an error
transport_error == "failed"

\* The service's answer to DELETE /subnets/<range>
ServiceDelete(rem, subnet) ==
    [r \in Keys(rem) \ {subnet} |-> rem[r]]

\* The service's answer to POST /subnets/: the new subnet
ServicePost(rem, data) ==
    [r \in Keys(rem) \cup {data.range} |->
        IF r = data.range
           THEN [range |-> data.range, description |-> data.description,
                 vlan |-> data.vlan, category |-> data.category,
                 location |-> data.location, frozen |-> data.frozen,
                 reserved |-> 3]
           ELSE rem[r]]

\* The service's answer to PATCH /subnets/<range>
ServicePatch(rem, subnet, data) ==
    [rem EXCEPT ![subnet] =
        [rem[subnet] EXCEPT !.description = data.description,
                            !.vlan = data.vlan,
                            !.category = data.category,
                            !.location = data.location]]

-----------------------------------------------------------------------------
(* The safety checks and the start of the requests: lines 1148-1172 *)

\* The loops in the order delete, patch, post
NextLoop_PatchFirst(phase, post, patch) ==
    IF phase \in {"delete"} /\ patch # {} THEN [pc |-> "patch", pending |-> patch]
    ELSE IF phase \in {"delete", "patch"} /\ post # {} THEN [pc |-> "post", pending |-> post]
    ELSE [pc |-> "done", pending |-> {}]

\* The loop that follows position phase when its set is exhausted: the first
\* of delete, post, patch after phase with a non-empty set, or the end
NextLoop(phase, post, patch) ==
    IF phase \in {"delete"} /\ post # {} THEN [pc |-> "post", pending |-> post]
    ELSE IF phase \in {"delete", "post"} /\ patch # {} THEN [pc |-> "patch", pending |-> patch]
    ELSE [pc |-> "done", pending |-> {}]

\* A loop left after its first pass
AfterPass_Break(phase, rest, post, patch) == NextLoop(phase, post, patch)

\* The position and the rest of the set after one pass of the loop of phase
AfterPass(phase, rest, post, patch) ==
    IF rest # {} THEN [pc |-> phase, pending |-> rest]
    ELSE NextLoop(phase, post, patch)

\* The position after a call of the loop of phase: the loops have no
\* handler, so the exception of a failed call leaves the routine
AfterCall_Continue(ok, phase, rest, post, patch) ==
    AfterPass(phase, rest, post, patch)
AfterCall(ok, phase, rest, post, patch) ==
    IF ok THEN AfterPass(phase, rest, post, patch)
    ELSE [pc |-> transport_error, pending |-> rest]

\* line 1199, written when the last loop has ended
EndLog(lg, position) ==
    IF position = "done" THEN Append(lg, <<"API REQUESTS END">>) ELSE lg

\* line 1169: the test of the 20% rule
RequiresForce(ndelete, npatch, nsubnets, a) ==
    OverThreshold(ndelete, npatch, nsubnets) /\ ~Force(a)

\* lines 1166-1170 with a warning that is printed and does not end the run
GuardVerdict_WarnOnly(flag, ndelete, npatch, nsubnets, a) ==
    IF flag
       THEN [stop |-> cli_warning, message |-> "Errors detected during setup"]
    ELSE IF nsubnets = 0
       THEN [stop |-> "ZeroDivisionError", message |-> ""]
    ELSE IF RequiresForce(ndelete, npatch, nsubnets, a)
       THEN [stop |-> "", message |-> "Requires force"]
    ELSE [stop |-> "", message |-> ""]

\* lines 1166-1170: where the routine stops, if it does, and the warning.
\* The quotient of line 1169 is computed before 'y' is looked for, and
\* raises ZeroDivisionError when no subnet was fetched.
GuardVerdict(flag, ndelete, npatch, nsubnets, a) ==
    IF flag
       THEN [stop |-> cli_warning, message |-> "Errors detected during setup"]
    ELSE IF nsubnets = 0
       THEN [stop |-> "ZeroDivisionError", message |-> ""]
    ELSE IF RequiresForce(ndelete, npatch, nsubnets, a)
       THEN [stop |-> cli_warning, message |-> "Requires force"]
    ELSE [stop |-> "", message |-> ""]

\* lines 1148-1172, after the loop over subnets_delete has ended
Guard ==
    /\ pc = "check_used"
    /\ pending = {}
    /\ LET pairs == OverlapPairs(subnets_post, subnets_patch)
           flag == ERROR \/ pairs # {}
           patch == PatchSet(subnets_ignore, import_data, current_subnets)
           verdict == GuardVerdict(flag, Cardinality(subnets_delete),
                                   Cardinality(patch),
                                   Cardinality(Keys(current_subnets)), args)
           start == IF subnets_delete # {}
                       THEN [pc |-> "delete", pending |-> subnets_delete]
                       ELSE NextLoop("delete", subnets_post, patch)
       IN  /\ ERROR' = flag
           /\ subnets_patch' = patch
           /\ message' = verdict.message
           /\ \E order \in Orderings(pairs) :
                LET lg == log_file \o
                          [i \in 1..Len(order) |->
                              <<"ERROR Overlap", order[i][1], order[i][2]>>]
                IN  IF verdict.stop # ""
                       THEN /\ pc' = verdict.stop
                            /\ pending' = {}
                            /\ log_file' = lg
                       ELSE /\ pc' = start.pc
                            /\ pending' = start.pending
                            /\ log_file' = EndLog(Append(lg, <<"API REQUESTS START">>),
                                                  start.pc)
    /\ UNCHANGED <<args, file, vlans, remote, used, runs, import_data,
                   current_subnets, subnets_delete, subnets_post,
                   subnets_ignore, calls, remote0, fetches, others>>

-----------------------------------------------------------------------------
(* The requests: lines 1174-1199 *)

\* lines 1182-1187: the fields of a POST
PostData(data) ==
    [range |-> data.range, description |-> data.description,
     vlan |-> data.vlan, category |-> data.category,
     location |-> data.location, frozen |-> data.frozen]

\* lines 1193-1196 with frozen sent as well, as in the POST of lines 1182-1187
PatchData_WithFrozen(data) ==
    [description |-> data.description, vlan |-> data.vlan,
     category |-> data.category, location |-> data.location,
     frozen |-> data.frozen]

\* lines 1193-1196: the fields of a PATCH
PatchData(data) ==
    [description |-> data.description, vlan |-> data.vlan,
     category |-> data.category, location |-> data.location]

\* lines 1174-1176 with the used addresses looked at again before delete(url)
DeleteAllowed_Recheck(used_list) == used_list = {}

\* lines 1174-1176: nothing is tested between the loop header and delete(url)
DeleteAllowed(used_list) == TRUE

\* lines 1174-1177: the pass of the loop over subnets_delete for subnet.
\* in_use notes whether the range had used addresses when DELETE was sent.
DeleteOf(subnet) ==
    /\ pc = "delete"
    /\ subnet \in pending
    /\ DeleteAllowed(used[subnet])
    /\ \E ok \in BOOLEAN :
         LET after == AfterCall(ok, "delete", pending \ {subnet},
                                subnets_post, subnets_patch)
         IN  /\ ok => subnet \in Keys(remote)
             /\ calls' = Append(calls, [verb |-> "DELETE", range |-> subnet,
                                        data |-> EmptyMap, ok |-> ok,
                                        in_use |-> used[subnet] # {}])
             /\ remote' = IF ok THEN ServiceDelete(remote, subnet) ELSE remote
             /\ used' = IF ok THEN [used EXCEPT ![subnet] = {}] ELSE used
             /\ pc' = after.pc
             /\ pending' = after.pending
             /\ log_file' = EndLog(IF ok THEN Append(log_file, <<"DELETE", subnet>>)
                                         ELSE log_file, after.pc)
    /\ UNCHANGED <<args, file, vlans, runs, ERROR, import_data,
                   current_subnets, subnets_delete, subnets_post,
                   subnets_patch, subnets_ignore, remote0, message,
                   fetches, others>>

\* lines 1174-1177: one pass of the loop over subnets_delete
Delete == \E subnet \in pending : DeleteOf(subnet)

\* lines 1179-1188: one pass of the loop over subnets_post
Post ==
    /\ pc = "post"
    /\ \E subnet \in pending, ok \in BOOLEAN :
         LET data == PostData(import_data[subnet])
             after == AfterCall(ok, "post", pending \ {subnet},
                                subnets_post, subnets_patch)
         IN  /\ ok => subnet \notin Keys(remote)
             /\ calls' = Append(calls, [verb |-> "POST", range |-> subnet,
                                        data |-> data, ok |-> ok])
             /\ remote' = IF ok THEN ServicePost(remote, data) ELSE remote
             /\ pc' = after.pc
             /\ pending' = after.pending
             /\ log_file' = EndLog(IF ok THEN Append(log_file, <<"POST", subnet>>)
                                         ELSE log_file, after.pc)
    /\ UNCHANGED <<args, file, vlans, used, runs, ERROR, import_data,
                   current_subnets, subnets_delete, subnets_post,
                   subnets_patch, subnets_ignore, remote0, message,
                   fetches, others>>

\* lines 1190-1197: one pass of the loop over subnets_patch
Patch ==
    /\ pc = "patch"
    /\ \E subnet \in pending, ok \in BOOLEAN :
         LET data == PatchData(import_data[subnet])
             after == AfterCall(ok, "patch", pending \ {subnet},
                                subnets_post, subnets_patch)
         IN  /\ ok => subnet \in Keys(remote)
             /\ calls' = Append(calls, [verb |-> "PATCH", range |-> subnet,
                                        data |-> data, ok |-> ok])
             /\ remote' = IF ok THEN ServicePatch(remote, subnet, data) ELSE remote
             /\ pc' = after.pc
             /\ pending' = after.pending
             /\ log_file' = EndLog(IF ok THEN Append(log_file, <<"PATCH", subnet>>)
                                         ELSE log_file, after.pc)
    /\ UNCHANGED <<args, file, vlans, used, runs, ERROR, import_data,
                   current_subnets, subnets_delete, subnets_post,
                   subnets_patch, subnets_ignore, remote0, message,
                   fetches, others>>

-----------------------------------------------------------------------------
(* The inputs: the file, the arguments, the service's state *)

\* A line of the file that matches the pattern of line 1107
Line(r, tags, description) ==
    [match |-> TRUE, range |-> r, tags |-> tags, description |-> description]

\* A subnet of the service
Subnet(r, description, vlan, category, location, frozen) ==
    [range |-> r, description |-> description, vlan |-> vlan,
     category |-> category, location |-> location, frozen |-> frozen,
     reserved |-> 3]

\* import <file>, import <file> y, and a file named y
ArgLists == {<<"subnets.txt">>, <<"subnets.txt", "y">>, <<"y">>}

\* What a range is in one scenario: on neither side, on the service only
\* (without and with used addresses), in the file only, on both sides with
\* equal fields, on both sides with another description
Kinds == {"none", "old", "old_used", "new", "same", "changed"}

\* The lines of the file for the ranges of nets[1..n], in that order
RECURSIVE KindLines(_, _, _)
KindLines(nets, n, kind) ==
    IF n = 0 THEN <<>>
    ELSE KindLines(nets, n - 1, kind)
         \o (IF kind[nets[n]] \in {"new", "same"}
                THEN << Line(nets[n], <<"oslo", "office">>, "net") >>
             ELSE IF kind[nets[n]] = "changed"
                THEN << Line(nets[n], <<"oslo", "office">>, "renamed") >>
             ELSE <<>>)

\* The service's subnets for the ranges of S
KindSubnets(S, kind) ==
    [r \in {x \in S : kind[x] \in {"old", "old_used", "same", "changed"}} |->
        Subnet(r, "net", Some(0), Some("office"), Some("oslo"), FALSE)]

AllNets == {Nets[i] : i \in DOMAIN Nets} \cup {FlatNets[i] : i \in DOMAIN FlatNets}

KindUsed(kind) ==
    [r \in AllNets |-> IF r \in DOMAIN kind /\ kind[r] = "old_used"
                          THEN {"10.9.9.9"} ELSE {}]

\* Scenarios over the first MaxRanges ranges of Nets, which overlap
PlanScenarios ==
    LET S == {Nets[i] : i \in 1..MaxRanges}
    IN  {[file |-> KindLines(Nets, MaxRanges, kind),
          remote |-> KindSubnets(S, kind),
          used |-> KindUsed(kind),
          vlans |-> EmptyMap] : kind \in [S -> Kinds]}

\* Scenarios over disjoint ranges with an inventory of up to MaxInv subnets:
\* the first d are deleted, the next c changed, the rest equal, and n
\* ranges are new
FlatKind(size, d, c, n) ==
    [r \in {FlatNets[i] : i \in 1..(size + n)} |->
        LET i == CHOOSE j \in 1..(size + n) : FlatNets[j] = r
        IN  IF i <= d THEN "old"
            ELSE IF i <= d + c THEN "changed"
            ELSE IF i <= size THEN "same"
            ELSE "new"]

FlatScenarios ==
    {[file |-> KindLines(FlatNets, size + n, FlatKind(size, d, c, n)),
      remote |-> KindSubnets({FlatNets[i] : i \in 1..(size + n)}, FlatKind(size, d, c, n)),
      used |-> KindUsed(FlatKind(size, d, c, n)),
      vlans |-> EmptyMap] :
        <<size, d, c, n>> \in
            {q \in (0..MaxInv) \X (0..MaxInv) \X (0..MaxInv) \X (0..1) :
                q[2] + q[3] <= q[1] /\ q[1] + q[4] <= Len(FlatNets)}}

\* Scenarios with one range on both sides, with every combination of fields,
\* and a second range of any kind
FieldScenarios ==
    {[file |-> << Line(Nets[3], tags, description) >>
               \o KindLines(Nets, 1, [r \in {Nets[1]} |-> kind]),
      remote |-> [r \in {Nets[3]} \cup Keys(KindSubnets({Nets[1]}, [x \in {Nets[1]} |-> kind])) |->
                    IF r = Nets[3]
                       THEN Subnet(r, "net", vlan, category, location, frozen)
                       ELSE KindSubnets({Nets[1]}, [x \in {Nets[1]} |-> kind])[r]],
      used |-> KindUsed([r \in {Nets[1]} |-> kind]),
      vlans |-> vmap] :
        kind \in Kinds,
        tags \in {<<"oslo", "office">>, <<"office">>, <<"oslo">>, <<"bogus">>},
        description \in {"net", "renamed"},
        vlan \in {None, Some(0), Some(5)},
        category \in {None, Some("office")},
        location \in {None, Some("oslo")},
        frozen \in BOOLEAN,
        vmap \in {EmptyMap, [r \in {Nets[3]} |-> 5]}}

\* The description change of one of ten subnets
TenScenarios ==
    {[file |-> KindLines(FlatNets, 10, FlatKind(10, 0, 1, 0)),
      remote |-> KindSubnets({FlatNets[i] : i \in 1..10}, FlatKind(10, 0, 1, 0)),
      used |-> KindUsed(FlatKind(10, 0, 1, 0)),
      vlans |-> EmptyMap]}

\* A line of the file that does not match the pattern of line 1107
NoMatch == [match |-> FALSE]

\* The tags of the parsing scenarios: two location tags, two category tags,
\* one tag of both vocabularies, one of neither
TagPool == {"oslo", "bergen", "office", "lab", "campus", "bogus"}

\* The tag lists of 1 to n tags (the split of line 1109 yields at least one)
RECURSIVE TagLists(_)
TagLists(n) ==
    IF n = 0 THEN {}
    ELSE IF n = 1 THEN {<<t>> : t \in TagPool}
    ELSE TagLists(n - 1)
         \cup {Append(l, t) : l \in {x \in TagLists(n - 1) : Len(x) = n - 1},
                                t \in TagPool}

\* Scenarios about one line with any tags: alone, after a line that does not
\* match, after an earlier line for the same range, before a line for
\* another range; the service holds the range of the line
ParseScenarios ==
    {[file |-> before \o << Line(Nets[3], tags, "net") >> \o after,
      remote |-> KindSubnets({Nets[3]}, [r \in {Nets[3]} |-> "same"]),
      used |-> KindUsed(EmptyMap),
      vlans |-> EmptyMap] :
        tags \in TagLists(MaxTags),
        before \in {<<>>, << NoMatch >>, << Line(Nets[3], <<"lab">>, "old") >>},
        after \in {<<>>, << Line(Nets[2], <<"bogus">>, "net") >>}}

Scenarios ==
    PlanScenarios \cup FlatScenarios \cup FieldScenarios
    \cup TenScenarios \cup ParseScenarios

\* The state before the first run, for the scenarios of S
InitOf(S) ==
    /\ \E s \in S :
         /\ file = s.file
         /\ remote = s.remote
         /\ used = s.used
         /\ vlans = s.vlans
    /\ args \in ArgLists
    /\ pc = "idle"
    /\ runs = 0
    /\ log_file = <<>>
    /\ ERROR = FALSE
    /\ import_data = EmptyMap
    /\ current_subnets = EmptyMap
    /\ subnets_delete = {}
    /\ subnets_post = {}
    /\ subnets_patch = {}
    /\ subnets_ignore = {}
    /\ pending = {}
    /\ calls = <<>>
    /\ remote0 = remote
    /\ message = ""
    /\ fetches = 0
    /\ others = 0

Init == InitOf(Scenarios)

Next ==
    \/ ReadFile
    \/ FetchSubnets
    \/ CheckUsed
    \/ Guard
    \/ Delete
    \/ Post
    \/ Patch

Spec == Init /\ [][Next]_vars

-----------------------------------------------------------------------------
(* A second operator working on the service while the import runs *)

\* Host.opt_a_add, lines 399-400, by another operator: an address of a subnet
\* without used addresses comes into use
OtherAssigns ==
    /\ others < MaxOther
    /\ \E r \in Keys(remote) :
         /\ used[r] = {}
         /\ used' = [used EXCEPT ![r] = {"10.9.9.9"}]
    /\ others' = others + 1
    /\ UNCHANGED <<args, file, vlans, remote, pc, runs, log_file, ERROR,
                   import_data, current_subnets, subnets_delete, subnets_post,
                   subnets_patch, subnets_ignore, pending, calls, remote0,
                   message, fetches>>

\* Host.opt_a_remove, lines 429-430, by another operator: the addresses of a
\* subnet are freed
OtherFrees ==
    /\ others < MaxOther
    /\ \E r \in Keys(remote) :
         /\ used[r] # {}
         /\ used' = [used EXCEPT ![r] = {}]
    /\ others' = others + 1
    /\ UNCHANGED <<args, file, vlans, remote, pc, runs, log_file, ERROR,
                   import_data, current_subnets, subnets_delete, subnets_post,
                   subnets_patch, subnets_ignore, pending, calls, remote0,
                   message, fetches>>

\* Scenarios over two disjoint ranges of any kind
RaceScenarios ==
    LET S == {Nets[2], Nets[3]}
    IN  {[file |-> KindLines(Nets, 3, [r \in {Nets[1]} \cup S |->
                                          IF r \in S THEN kind[r] ELSE "none"]),
          remote |-> KindSubnets(S, kind),
          used |-> KindUsed(kind),
          vlans |-> EmptyMap] : kind \in [S -> Kinds]}

InitRace == InitOf(RaceScenarios)

NextRace ==
    \/ Next
    \/ OtherAssigns
    \/ OtherFrees

SpecRace == InitRace /\ [][NextRace]_vars

-----------------------------------------------------------------------------
(* Properties *)

\* the sets of lines 1135-1138 have been computed in this run
Fetched == pc \notin {"idle", "fetch"}

\* the checks of lines 1148-1170 have been passed through in this run
GuardRan == pc \in {"delete", "post", "patch", "done", "failed", "aborted",
                    "ZeroDivisionError"}

\* the run went on to the requests
Proceeded == pc \in {"delete", "post", "patch", "done", "failed"}

\* the run was ended by a check
Rejected == pc \in {"aborted", "TypeError"} \/ message # ""

\* the token after the file argument is y
ForceToken == Len(args) >= 2 /\ args[2] = "y"

\* a range to delete has addresses in use
InUse == \E r \in subnets_delete : used[r] # {}

\* the imported and the observed record of r differ in one of the four fields
FieldsDiffer(r) ==
    \/ import_data[r].description # remote0[r].description
    \/ import_data[r].vlan # remote0[r].vlan
    \/ import_data[r].category # remote0[r].category
    \/ import_data[r].location # remote0[r].location

\* a range to create overlaps a range that stays, or another range to create
OverlapInPlan ==
    \E a \in subnets_post :
        \E b \in ((Keys(remote0) \ subnets_delete) \cup subnets_post) \ {a} :
            overlaps(ip_network(a), ip_network(b))

\* C1: the delete set is the observed keys minus the imported keys, the post
\* set the imported keys minus the observed keys, and the patch set exactly
\* the ranges on both sides of which description, vlan, category or location
\* differs.
C1_PlanSets ==
    /\ Fetched =>
         /\ subnets_delete = Keys(remote0) \ Keys(import_data)
         /\ subnets_post = Keys(import_data) \ Keys(remote0)
    /\ GuardRan =>
         subnets_patch = {r \in Keys(remote0) \cap Keys(import_data) : FieldsDiffer(r)}

C1_Witness ==
    /\ GuardRan
    /\ subnets_delete # {}
    /\ subnets_post # {}
    /\ subnets_patch # {}
    /\ subnets_patch # subnets_ignore

\* C2: a run ended by a safety check has issued no DELETE, POST or PATCH, and
\* the service's subnets are those of the start of the run.
C2_RejectedNoMutation ==
    Rejected => calls = <<>> /\ remote = remote0

C2_Witness ==
    /\ pc = "aborted"
    /\ message = "Requires force"
    /\ subnets_delete # {}
    /\ subnets_post # {}

\* C3: when a range to delete has addresses in use the run gets no further
\* than the check of the used addresses and issues no call, with and without
\* the y token.
C3_InUseBlocks ==
    (Fetched /\ InUse) =>
        /\ pc \in {"check_used", "TypeError"}
        /\ calls = <<>>
        /\ remote = remote0

C3_Witness ==
    /\ pc = "TypeError"
    /\ ForceToken
    /\ InUse

\* C4: when a range to create overlaps a range that stays or another range
\* to create, the run is aborted and issues no call.
C4_OverlapAborts ==
    (GuardRan /\ OverlapInPlan) => (~Proceeded /\ calls = <<>>)

\* C5: without the y token, without used addresses and overlaps, the run goes
\* on to the requests exactly when 5 * (deletes + patches) <= subnets.
C5_BlastBoundary ==
    (GuardRan /\ ~ForceToken /\ ~InUse /\ ~OverlapInPlan) =>
        (Proceeded <=>
            5 * (Cardinality(subnets_delete) + Cardinality(subnets_patch))
                <= Cardinality(Keys(remote0)))

\* C6: with the y token, without used addresses and overlaps, the run goes on
\* to the requests whatever the share of subnets deleted and patched.
C6_ForceProceeds ==
    (GuardRan /\ ForceToken /\ ~InUse /\ ~OverlapInPlan) => Proceeded

\* C7: with no subnet on the service the 20% rule neither blocks nor fails:
\* an import without overlaps goes on to the requests.
C7_EmptyInventory ==
    (GuardRan /\ Keys(remote0) = {} /\ ~OverlapInPlan) => Proceeded

\* C8: in the calls of a run no POST precedes a DELETE and no PATCH precedes
\* a POST or a DELETE.
VerbRank(verb) ==
    CASE verb = "DELETE" -> 1 [] verb = "POST" -> 2 [] verb = "PATCH" -> 3

C8_CallOrder ==
    \A i, j \in DOMAIN calls :
        i < j => VerbRank(calls[i].verb) <= VerbRank(calls[j].verb)

C8_Witness ==
    /\ pc = "done"
    /\ \A verb \in {"DELETE", "POST", "PATCH"} :
         \E i \in DOMAIN calls : calls[i].verb = verb

\* C9: when the service's subnets already equal the import on the keys and
\* on description, vlan, category and location, every run computes empty
\* delete, post and patch sets and issues no call.
AlreadyEqual ==
    /\ Keys(remote0) = Keys(import_data)
    /\ \A r \in Keys(remote0) : ~FieldsDiffer(r)

C9_Idempotent ==
    (GuardRan /\ AlreadyEqual) =>
        /\ subnets_delete = {}
        /\ subnets_post = {}
        /\ subnets_patch = {}
        /\ calls = <<>>
        /\ remote = remote0

C9_Witness ==
    /\ runs = 2
    /\ GuardRan
    /\ AlreadyEqual
    /\ Keys(remote0) # {}

\* C10: a failed call is the last call of its run and ends it, no call is
\* issued twice, and what the calls before it changed is still in place.
StillApplied(c) ==
    CASE c.verb = "DELETE" -> c.range \notin Keys(remote)
      [] c.verb = "POST" ->
            /\ c.range \in Keys(remote)
            /\ remote[c.range].description = c.data.description
            /\ remote[c.range].vlan = c.data.vlan
      [] c.verb = "PATCH" ->
            /\ c.range \in Keys(remote)
            /\ remote[c.range].description = c.data.description
            /\ remote[c.range].vlan = c.data.vlan
            /\ remote[c.range].category = c.data.category
            /\ remote[c.range].location = c.data.location

C10_FailureStops ==
    /\ \A i \in DOMAIN calls :
         IF calls[i].ok THEN StillApplied(calls[i])
         ELSE i = Len(calls) /\ pc = "failed"
    /\ \A i, j \in DOMAIN calls :
         i < j => calls[i].range # calls[j].range
    /\ pc = "failed" =>
         /\ calls # <<>>
         /\ ~calls[Len(calls)].ok
         /\ Keys(remote) = (Keys(remote0) \ {calls[i].range : i \in
                                {k \in DOMAIN calls : calls[k].ok /\ calls[k].verb = "DELETE"}})
                           \cup {calls[i].range : i \in
                                {k \in DOMAIN calls : calls[k].ok /\ calls[k].verb = "POST"}}

C10_Witness ==
    /\ pc = "failed"
    /\ Len(calls) >= 3
    /\ calls[1].verb = "DELETE"
    /\ calls[2].verb = "POST"
    /\ calls[Len(calls)].verb = "PATCH"

-----------------------------------------------------------------------------
(* Properties of the reading of the file and of the log *)

\* the file has been read in this run
FileRead == pc # "idle"

\* tag is in neither vocabulary
Unrecognized(tag) == tag \notin LocationTags /\ tag \notin CategoryTags

\* the number of entries of the log equal to the diagnostic for tag on line n
DiagnosticCount(n, tag) ==
    Cardinality({i \in DOMAIN log_file :
                    /\ log_file[i][1] = "Invalid tag"
                    /\ log_file[i][2] = n
                    /\ log_file[i][3] = tag})

\* the number of places of tag among the tags of line n
TagCount(n, tag) ==
    Cardinality({k \in DOMAIN file[n].tags : file[n].tags[k] = tag})

\* line n is the last matching line of the file for its range
LastForRange(n) ==
    \A m \in DOMAIN file :
        (m > n /\ file[m].match) => file[m].range # file[n].range

\* C11: a matching line with a tag of neither vocabulary still yields a
\* record for its range (category and location None when no tag of the line
\* is valid), the log holds one diagnostic with the line number and the tag
\* for each such tag, and the run is not ended by it: the error flag stays
\* unset by the reading and a run that stops has another cause.
C11_UnknownTag ==
    FileRead =>
        \A n \in DOMAIN file :
            file[n].match =>
                \A k \in DOMAIN file[n].tags :
                    LET tag == file[n].tags[k]
                    IN  Unrecognized(tag) =>
                          /\ file[n].range \in Keys(import_data)
                          /\ DiagnosticCount(n, tag) = TagCount(n, tag)
                          /\ (LastForRange(n) /\ \A j \in DOMAIN file[n].tags :
                                                    Unrecognized(file[n].tags[j]))
                               => /\ import_data[file[n].range].category = None
                                  /\ import_data[file[n].range].location = None
                          /\ pc = "fetch" => ~ERROR
                          /\ pc = "aborted" => message = "Requires force"
                          /\ pc = "TypeError" => InUse

C11_Witness ==
    /\ pc = "done"
    /\ Len(file) = 2
    /\ ~file[1].match
    /\ file[2].tags = <<"bogus">>
    /\ DiagnosticCount(2, "bogus") = 1
    /\ import_data[file[2].range].category = None
    /\ import_data[file[2].range].location = None

\* the number of calls of the run with this verb and range
CallCount(verb, r) ==
    Cardinality({i \in DOMAIN calls : calls[i].verb = verb /\ calls[i].range = r})

\* C12: a run that went through all its requests has issued one DELETE for
\* each range of the delete set, one POST for each range of the post set,
\* one PATCH for each range of the patch set, and nothing else.
C12_OneCallEach ==
    pc = "done" =>
        /\ \A r \in subnets_delete : CallCount("DELETE", r) = 1
        /\ \A r \in subnets_post : CallCount("POST", r) = 1
        /\ \A r \in subnets_patch : CallCount("PATCH", r) = 1
        /\ Len(calls) = Cardinality(subnets_delete) + Cardinality(subnets_post)
                        + Cardinality(subnets_patch)
        /\ \A i \in DOMAIN calls : calls[i].ok

\* the changed description of one of ten subnets, without y: one PATCH
C12_Witness ==
    /\ pc = "done"
    /\ Cardinality(Keys(remote0)) = 10
    /\ ~Force(args)
    /\ Len(calls) = 1
    /\ calls[1].verb = "PATCH"
    /\ import_data[calls[1].range].description # remote0[calls[1].range].description

\* the entries of the log for requests
RequestEntries ==
    {i \in DOMAIN log_file : log_file[i][1] \in {"DELETE", "POST", "PATCH"}}

\* C13: at every point of a run the log holds as many DELETE, POST and PATCH
\* entries as calls have been attempted, the failed ones included.
C13_EveryCallLogged ==
    Cardinality(RequestEntries) = Len(calls)

\* the ranges to delete that have addresses in use
InUseRanges == {r \in subnets_delete : used[r] # {}}

\* a new range and a range that stays or another new range, overlapping
OverlapsInPlan ==
    {pr \in subnets_post \X ((Keys(remote0) \ subnets_delete) \cup subnets_post) :
        pr[1] # pr[2] /\ overlaps(ip_network(pr[1]), ip_network(pr[2]))}

\* more than a fifth of the observed subnets is deleted or patched and the
\* token after the file argument is not y
BlastExcess ==
    /\ Keys(remote0) # {}
    /\ OverThreshold(Cardinality(subnets_delete),
                     Cardinality(PatchSet(subnets_ignore, import_data, remote0)),
                     Cardinality(Keys(remote0)))
    /\ ~ForceToken

\* the log holds entry
Logged(entry) == \E i \in DOMAIN log_file : log_file[i] = entry

\* C14: when a run is rejected the log holds a reason for every violation:
\* one for each range to delete with addresses in use, one for each
\* overlapping pair, and one for the excess over a fifth without force.
C14_AllReasonsLogged ==
    Rejected =>
        /\ \A r \in InUseRanges : Logged(<<"WARNING in use", r>>)
        /\ \A pr \in OverlapsInPlan : Logged(<<"ERROR Overlap", pr[1], pr[2]>>)
        /\ BlastExcess => Logged(<<"Requires force">>)

\* more than a fifth of the observed subnets is deleted or patched
OverFifth ==
    5 * (Cardinality(subnets_delete) + Cardinality(subnets_patch))
        > Cardinality(Keys(remote0))

\* C15: force is set exactly when the token after the file argument is y: a
\* run that changes more than a fifth of a non-empty inventory goes on to
\* the requests only with that token, and with that token it does go on.
C15_ForceIsSecondToken ==
    (GuardRan /\ Keys(remote0) # {} /\ OverFifth /\ ~ERROR) =>
        (Proceeded <=> ForceToken)

\* the fields the comparison of lines 1160-1163 looks at
PatchFields == {"description", "vlan", "category", "location"}

\* the fields of PatchFields in which the imported and the fetched record of
\* r differ
ChangedFields(r) ==
    {f \in PatchFields : import_data[r][f] # current_subnets[r][f]}

\* C16 as stated: every PATCH carries exactly the fields whose imported value
\* differs from the observed value, and no field whose value is unchanged.
C16_ChangedFieldsOnly ==
    \A i \in DOMAIN calls :
        calls[i].verb = "PATCH" =>
            DOMAIN calls[i].data = ChangedFields(calls[i].range)

\* C16: every PATCH carries the four fields description, vlan, category and
\* location with their imported values, changed or not, and no other field;
\* it is issued only for a range of which one of the four differs.
C16_PatchAllFour ==
    \A i \in DOMAIN calls :
        calls[i].verb = "PATCH" =>
            /\ DOMAIN calls[i].data = PatchFields
            /\ \A f \in PatchFields :
                 calls[i].data[f] = import_data[calls[i].range][f]
            /\ ChangedFields(calls[i].range) # {}

\* a PATCH that succeeded carried a changed location and an unchanged
\* description
C16_Witness ==
    \E i \in DOMAIN calls :
        /\ calls[i].verb = "PATCH"
        /\ calls[i].ok
        /\ "location" \in ChangedFields(calls[i].range)
        /\ "description" \notin ChangedFields(calls[i].range)
        /\ calls[i].data.description = current_subnets[calls[i].range].description

\* C17: once the sets are computed, the delete set, the post set and the set
\* of ranges on both sides are pairwise disjoint and cover exactly the keys
\* fetched and the keys imported; the patch set lies within the ranges on
\* both sides, and no range is the target of two calls of a run.
C17_Partition ==
    Fetched =>
        /\ subnets_delete \cap subnets_post = {}
        /\ subnets_delete \cap subnets_ignore = {}
        /\ subnets_post \cap subnets_ignore = {}
        /\ subnets_delete \cup subnets_post \cup subnets_ignore
               = Keys(current_subnets) \cup Keys(import_data)
        /\ subnets_patch \subseteq subnets_ignore
        /\ \A i, j \in DOMAIN calls :
               i # j => calls[i].range # calls[j].range

\* a run ended after a DELETE, a POST and a PATCH
C17_Witness ==
    /\ pc = "done"
    /\ subnets_delete # {}
    /\ subnets_post # {}
    /\ subnets_patch # {}
    /\ Len(calls) = Cardinality(subnets_delete \cup subnets_post \cup subnets_patch)

\* C18: in one run the subnets are fetched exactly once, before the first
\* query for used addresses and before the first call; afterwards the run
\* works on that snapshot, unchanged, whatever the calls do to the service.
C18_FetchedOnce ==
    /\ fetches <= 1
    /\ pc = "fetch" => (fetches = 0 /\ calls = <<>>)
    /\ Fetched =>
          /\ fetches = 1
          /\ current_subnets = remote0
          /\ subnets_delete = DeleteKeys(remote0, import_data)

\* a run ended with calls that changed the service: the snapshot is stale and
\* was fetched once
C18_Witness ==
    /\ pc = "done"
    /\ Len(calls) >= 2
    /\ remote # current_subnets
    /\ fetches = 1

\* C19: beside another operator, nothing stands between the checks and the
\* requests: while the loop over subnets_delete runs, the DELETE of every
\* range still to delete can be issued, whether or not addresses of the range
\* have come into use since its check; a DELETE is only ever issued for a
\* range whose check found no address in use.
C19_NoRecheck ==
    /\ pc = "delete" => \A r \in pending : ENABLED DeleteOf(r)
    /\ \A i \in DOMAIN calls :
          calls[i].verb = "DELETE" => calls[i].range \in subnets_delete

\* the other operator registered an address on a range after its check had
\* passed, and the DELETE of that range was issued and succeeded
C19_Witness ==
    /\ others >= 1
    /\ \E i \in DOMAIN calls :
          /\ calls[i].verb = "DELETE"
          /\ calls[i].ok
          /\ calls[i].in_use
          /\ calls[i].range \notin Keys(remote)

\* the places of the valid location tags among tags
LocationPlaces(tags) == {k \in DOMAIN tags : tags[k] \in LocationTags}

\* the tags that are valid category tags and not valid location tags, in
\* the order of the line
CategoryOnly(tags) ==
    SelectSeq(tags, LAMBDA t : t \in CategoryTags /\ t \notin LocationTags)

\* the words of a sequence with one blank between neighbours
RECURSIVE Words(_)
Words(seq) ==
    IF Len(seq) = 1 THEN seq[1]
    ELSE Words(SubSeq(seq, 1, Len(seq) - 1)) \o " " \o seq[Len(seq)]

\* C20: after the reading, the record of a range holds, for the last matching
\* line of the range, as location the last tag of the line that is a valid
\* location tag (None without one) and as category the tags that are valid
\* category tags and not valid location tags, in order, joined by blanks
\* (None without one).
C20_TagResolution ==
    FileRead =>
        \A n \in DOMAIN file :
            (file[n].match /\ LastForRange(n)) =>
                LET tags == file[n].tags
                    places == LocationPlaces(tags)
                    last == CHOOSE k \in places : \A j \in places : j <= k
                    record == import_data[file[n].range]
                IN  /\ record.location =
                          IF places = {} THEN None ELSE Some(tags[last])
                    /\ record.category =
                          IF CategoryOnly(tags) = <<>> THEN None
                          ELSE Some(Words(CategoryOnly(tags)))

\* a line with a category tag and then a tag of both vocabularies was read
\* after an earlier line for the same range
C20_Witness ==
    /\ pc = "fetch"
    /\ Len(file) = 2
    /\ file[1].match
    /\ file[1].range = file[2].range
    /\ file[2].tags = <<"lab", "campus">>
    /\ import_data[file[2].range].location = Some("campus")
    /\ import_data[file[2].range].category = Some("lab")

\* r is on both sides with equal description, category and location, no vlan
\* on the service and vlan 0 in the import
VlanOnly(r) ==
    /\ r \in subnets_ignore
    /\ import_data[r].description = current_subnets[r].description
    /\ import_data[r].category = current_subnets[r].category
    /\ import_data[r].location = current_subnets[r].location
    /\ current_subnets[r].vlan = None
    /\ import_data[r].vlan = Some(0)

\* C21: a range read from the file without an entry in the vlan mapping has
\* vlan 0; a range on both sides that differs only in vlan 0 against no vlan
\* is in the patch set, and with it the share of a fifth is exceeded as with
\* any other patch: without y among the arguments the run stops there.
C21_VlanZeroDiffers ==
    /\ FileRead =>
          \A r \in Keys(import_data) :
              r \notin DOMAIN vlans => import_data[r].vlan = Some(0)
    /\ GuardRan =>
          \A r \in subnets_ignore :
              VlanOnly(r) =>
                  /\ r \in subnets_patch
                  /\ (OverFifth /\ ~Force(args)) =>
                        (pc = "aborted" /\ message = "Requires force")

\* the one subnet of the service differs from its line in vlan 0 against no
\* vlan only, and the run stopped for want of force
C21_Witness ==
    /\ pc = "aborted"
    /\ message = "Requires force"
    /\ subnets_delete = {}
    /\ Cardinality(Keys(remote0)) = 1
    /\ \E r \in subnets_patch : VlanOnly(r)
    /\ calls = <<>>

\* the pairs of a range to create and a range of the final patch set that
\* overlap
OverlapsWithPatch ==
    {pr \in subnets_post \X subnets_patch :
        overlaps(ip_network(pr[1]), ip_network(pr[2]))}

\* C22: when a range to create overlaps a range that the run puts into the
\* patch set, an overlap error is in the log for the pair, the run does not
\* go on to the requests and issues no call.
C22_OverlapWithPatch ==
    (GuardRan /\ OverlapsWithPatch # {}) =>
        /\ \A pr \in OverlapsWithPatch : Logged(<<"ERROR Overlap", pr[1], pr[2]>>)
        /\ ERROR
        /\ ~Proceeded
        /\ calls = <<>>

\* C23: no PATCH carries frozen or reserved, a range on both sides whose
\* description, vlan, category and location are equal is not in the patch
\* set whatever its frozen and reserved values, every record read from the
\* file has frozen FALSE and no reserved, and every POST carries frozen FALSE.
C23_FrozenReservedUntouched ==
    /\ \A i \in DOMAIN calls :
          /\ calls[i].verb = "PATCH" =>
                {"frozen", "reserved"} \cap DOMAIN calls[i].data = {}
          /\ calls[i].verb = "POST" =>
                /\ calls[i].data.frozen = FALSE
                /\ "reserved" \notin DOMAIN calls[i].data
    /\ \A r \in Keys(import_data) :
          /\ import_data[r].frozen = FALSE
          /\ "reserved" \notin DOMAIN import_data[r]
    /\ GuardRan =>
          \A r \in subnets_ignore :
              ChangedFields(r) = {} => r \notin subnets_patch

\* a run ended with a POST while the subnet on both sides, frozen on the
\* service, equal in the four fields, was left out of the patch set
C23_Witness ==
    /\ pc = "done"
    /\ \E i \in DOMAIN calls : calls[i].verb = "POST" /\ calls[i].ok
    /\ \E r \in subnets_ignore :
          /\ ChangedFields(r) = {}
          /\ current_subnets[r].frozen = TRUE
          /\ import_data[r].frozen = FALSE
          /\ r \notin subnets_patch
          /\ r \in Keys(remote)
          /\ remote[r].frozen = TRUE

\* the service holds exactly the imported ranges, each with the imported
\* description, vlan, category and location
Converged ==
    /\ Keys(remote) = Keys(import_data)
    /\ \A r \in Keys(remote) :
          \A f \in PatchFields : remote[r][f] = import_data[r][f]

\* C24: a run that ends after all its calls succeeded leaves the service
\* converged on the import; the run that follows it reads the same records
\* and fetches what that run left; and in a run that started from a service
\* equal to the import all three sets are empty, no call is issued and the
\* service is left as it is.
C24_Convergence ==
    [][ /\ pc' = "done" => Converged'
        /\ (pc = "done" /\ runs' = runs + 1) =>
              /\ import_data' = import_data
              /\ remote0' = remote
              /\ AlreadyEqual'
        /\ (Fetched /\ AlreadyEqual) =>
              /\ remote' = remote
              /\ calls' = <<>>
              /\ subnets_delete' = {}
              /\ subnets_post' = {}
              /\ subnets_patch' = {}
      ]_vars

\* the second of two runs ended without a call on a service whose location
\* bergen can only stem from the PATCH of the first run
C24_Witness ==
    /\ runs = 2
    /\ pc = "done"
    /\ calls = <<>>
    /\ Converged
    /\ remote = remote0
    /\ \E r \in Keys(remote) : remote[r].location = Some("bergen")

\* the places of the log whose entry starts with kind
Places(kind) == {i \in DOMAIN log_file : log_file[i][1] = kind}

\* every place of A lies before every place of B
Before(A, B) == \A i \in A, j \in B : i < j

\* the order of the sections of the log: READ START before the diagnostics,
\* READ END before API REQUESTS START, the requests after API REQUESTS START,
\* API REQUESTS END only after every call of the plan has returned
LogSections ==
    /\ FileRead => Places("READ START") = {1}
    /\ Before(Places("READ START"), Places("Invalid tag"))
    /\ Before(Places("Invalid tag"), Places("READ END"))
    /\ Before(Places("READ END"), Places("API REQUESTS START"))
    /\ RequestEntries # {} => Places("API REQUESTS START") # {}
    /\ Before(Places("API REQUESTS START"), RequestEntries)
    /\ Places("API REQUESTS END") # {} =>
          /\ pc = "done"
          /\ Before(RequestEntries, Places("API REQUESTS END"))
          /\ \A r \in subnets_delete : CallCount("DELETE", r) = 1
          /\ \A r \in subnets_post : CallCount("POST", r) = 1
          /\ \A r \in subnets_patch : CallCount("PATCH", r) = 1
          /\ \A i \in DOMAIN calls : calls[i].ok

\* the three checks accept the plan: no range to delete has addresses in
\* use, no range to create overlaps a range that stays or is created, and
\* the share of a fifth is not exceeded without force
PlanAccepted == ~InUse /\ ~OverlapInPlan /\ ~BlastExcess

\* C25: the sections of the log are in order, and API REQUESTS START is in
\* the log only if the plan was accepted by all three checks.
C25_LogBrackets ==
    /\ LogSections
    /\ Places("API REQUESTS START") # {} => PlanAccepted

====
